---- MODULE Spec2Model ----
(***************************************************************************)
(* A model of the ChatFunctionsController of chatin (chatin.ts): the       *)
(* decorator metadata, the function registry and its enabled list, the     *)
(* dispatcher handleFunctionCall, the function-result message builder      *)
(* getFunctionMessage and the completion loop getNextCompletion.           *)
(***************************************************************************)
EXTENDS Integers, Sequences, FiniteSets, TLC

VARIABLES
    registeredFunctionsMap, \* Map<string, ChatFunctionData>, as its entries in insertion order
    enabledFunctions,       \* string[]
    usage,                  \* CreateCompletionResponseUsage
    messages,               \* Array<ChatCompletionRequestMessage>
    pc,                     \* where the controller's one thread of control is
    call,                   \* the getNextCompletion call in progress: its options and frames
    gfm,                    \* the getFunctionMessage call in progress: its parameters and locals
    lastOp                  \* the last finished host call with what it returned or threw

vars == <<registeredFunctionsMap, enabledFunctions, usage, messages, pc, call, gfm, lastOp>>

(***************************************************************************)
(* The fields of every record below are written in the order in which      *)
(* their names first occur in this module, the order TLC keeps them in.    *)
(***************************************************************************)

(***************************************************************************)
(* Bounds of the model.                                                    *)
(***************************************************************************)
MaxEnabled == 2      \* longest enabledFunctions list explored
MaxMessages == 2     \* longest transcript a host call may extend
MaxDepth == 2        \* most function-invocation replies in one getNextCompletion call
MaxTextLen == 6      \* longest callee result the truncation policy is explored with
MaxBudget == 2       \* largest requestMaxTokens the truncation policy is explored with

(***************************************************************************)
(* Plugins: classes whose methods carry @ChatFunction and whose parameters *)
(* carry @ChatParameter. A parameter is written as the source declares it: *)
(* its identifier, whether it is annotated, and the annotation's data.     *)
(***************************************************************************)
Param(id, required) ==
    [required |-> required, declared |-> id, annotated |-> TRUE, description |-> id,
     type |-> "string"]

SystemPlugin ==
    [id |-> "SystemPlugin",
     methods |-> <<
        [annotated |-> TRUE, description |-> "Get the current date and time.", propertyKey |-> "dateTime",
         name |-> "date_time", params |-> <<>>],
        [annotated |-> TRUE, description |-> "Fetch a URL and return raw text", propertyKey |-> "chatFetch",
         name |-> "fetch",
         params |-> <<Param("url", TRUE)>>] >>]

\* A plugin with a function f of required parameters a, b and optional c,
\* and a helper method that carries no @ChatFunction.
CalcPlugin ==
    [id |-> "CalcPlugin",
     methods |-> <<
        [annotated |-> TRUE, description |-> "f of a, b and c", propertyKey |-> "f",
         name |-> "f",
         params |-> <<Param("a", TRUE), Param("b", TRUE), Param("c", FALSE)>>],
        [annotated |-> FALSE, description |-> "", propertyKey |-> "helper",
         name |-> "helper", params |-> <<>>] >>]

\* A later version of the plugin that declares f again, with one optional
\* parameter that bears the method's own name.
CalcPluginV2 ==
    [id |-> "CalcPluginV2",
     methods |-> <<
        [annotated |-> TRUE, description |-> "f, second version", propertyKey |-> "f",
         name |-> "f",
         params |-> <<Param("f", FALSE)>>] >>]

Plugins == {SystemPlugin, CalcPlugin, CalcPluginV2}

PluginById(id) == CHOOSE p \in Plugins : p.id = id

\* The method a bound callable func = <<plugin id, property key>> is.
MethodOf(func) ==
    LET p == PluginById(func[1])
        i == CHOOSE j \in 1..Len(p.methods) : p.methods[j].propertyKey = func[2]
    IN  p.methods[i]

(***************************************************************************)
(* Sequence helpers (the Array methods the code uses).                     *)
(***************************************************************************)
Range(s) == {s[i] : i \in 1..Len(s)}

includes(s, x) == x \in Range(s)

\* Array.prototype.indexOf, one-based; 0 stands for -1.
indexOf(s, x) ==
    IF x \in Range(s) THEN CHOOSE i \in 1..Len(s) : s[i] = x /\ \A j \in 1..(i - 1) : s[j] # x
    ELSE 0

\* Array.prototype.splice(index, 1)
splice1(s, i) == SubSeq(s, 1, i - 1) \o SubSeq(s, i + 1, Len(s))

(***************************************************************************)
(* Map<string, ChatFunctionData> as the sequence of its <<key, value>>     *)
(* entries: set() replaces the value of a present key in place and appends *)
(* an absent one.                                                          *)
(***************************************************************************)
MapKeys(m) == [i \in 1..Len(m) |-> m[i][1]]

MapHas(m, k) == \E i \in 1..Len(m) : m[i][1] = k

MapGet(m, k) == m[CHOOSE i \in 1..Len(m) : m[i][1] = k][2]

\* A set() that keeps the value of a present key.
MapSetIfAbsent(m, k, v) ==
    IF MapHas(m, k) THEN m ELSE Append(m, <<k, v>>)

MapSet(m, k, v) ==
    IF MapHas(m, k)
    THEN [i \in 1..Len(m) |-> IF m[i][1] = k THEN <<k, v>> ELSE m[i]]
    ELSE Append(m, <<k, v>>)

(***************************************************************************)
(* Decorators and registration.                                            *)
(***************************************************************************)
\* The name left bare whatever the namespace.
NamespacedBare(namespace, name) == name

\* `${opts.namespace}.${name}` when opts.namespace is truthy ("" is not).
Namespaced(namespace, name) ==
    IF namespace # "" THEN namespace \o "." \o name ELSE name

\* The metadata @ChatParameter stores under chat_function_<i> of a method:
\* {...data, name: propertyKey}.
ChatParameter(method, i) ==
    [required |-> method.params[i].required,
     description |-> method.params[i].description,
     type |-> method.params[i].type,
     name |-> method.propertyKey]

\* Reflect.hasMetadata(`chat_function_${i}`, plugin, name), i zero-based.
HasParameterMetadata(method, i) ==
    i + 1 <= Len(method.params) /\ method.params[i + 1].annotated

\* The number of parameters the while loop of registerFunctions scans: it
\* stops at the first position without metadata.
RECURSIVE ScannedFrom(_, _)
ScannedFrom(method, i) ==
    IF HasParameterMetadata(method, i) THEN ScannedFrom(method, i + 1) ELSE i

Scanned(method) == ScannedFrom(method, 0)

\* The ChatFunctionData registerFunctions builds for one annotated method.
FunctionData(plugin, method) ==
    LET n == Scanned(method)
        parameterData == [i \in 1..n |-> ChatParameter(method, i)]
        required == {i \in 1..n : parameterData[i].required}
        RECURSIVE Required(_)
        Required(i) ==
            IF i > n THEN <<>>
            ELSE (IF i \in required THEN <<parameterData[i].name>> ELSE <<>>) \o Required(i + 1)
        names == {parameterData[i].name : i \in 1..n}
    IN  [description |-> method.description,
         func |-> <<plugin.id, method.propertyKey>>,
         parameterData |-> parameterData,
         parameterRequired |-> Required(1),
         \* parameterIndex.set(metadata.name, i): the last position set wins
         parameterIndex |->
            [k \in names |->
                (CHOOSE i \in 1..n : parameterData[i].name = k
                    /\ \A j \in (i + 1)..n : parameterData[j].name # k) - 1]]

\* The forEach of registerFunctions over the annotated methods, from method i on.
RECURSIVE RegisterFrom(_, _, _, _)
RegisterFrom(map, plugin, namespace, i) ==
    IF i > Len(plugin.methods) THEN map
    ELSE LET method == plugin.methods[i]
         IN  IF method.annotated
             THEN RegisterFrom(
                    MapSet(map, Namespaced(namespace, method.name), FunctionData(plugin, method)),
                    plugin, namespace, i + 1)
             ELSE RegisterFrom(map, plugin, namespace, i + 1)

\* The enabled list after the first loop of registerFunctions.
PushEnabled(enabled, namespace, enable) ==
    enabled \o [i \in 1..Len(enable) |-> Namespaced(namespace, enable[i])]

(***************************************************************************)
(* getRegisteredFunctions                                                  *)
(***************************************************************************)
Schema(name, data) ==
    LET pd == data.parameterData
        RECURSIVE Req(_)
        Req(i) ==
            IF i > Len(pd) THEN <<>>
            ELSE (IF pd[i].required THEN <<pd[i].name>> ELSE <<>>) \o Req(i + 1)
    IN  [required |-> Req(1),
         description |-> data.description,
         name |-> name,
         parameters |->
            [type |-> "object",
             properties |->
                [k \in {pd[i].name : i \in 1..Len(pd)} |->
                    LET i == CHOOSE j \in 1..Len(pd) : pd[j].name = k
                                /\ \A l \in (j + 1)..Len(pd) : pd[l].name # k
                    IN  [description |-> pd[i].description, type |-> pd[i].type]]]]

\* The filter dropped: every registered function is listed.
IsEnabledSchemaAlways(enabled, f) == TRUE

IsEnabledSchema(enabled, f) == includes(enabled, f.name)

getRegisteredFunctions(map, enabled) ==
    LET all == [i \in 1..Len(map) |-> Schema(map[i][1], map[i][2])]
        keep(f) == IsEnabledSchema(enabled, f)
    IN  SelectSeq(all, keep)

(***************************************************************************)
(* enableFunction / disableFunction and their list forms                   *)
(***************************************************************************)
enableFunction(enabled, name) ==
    IF indexOf(enabled, name) # 0 THEN Append(enabled, name) ELSE enabled

disableFunction(enabled, name) ==
    LET index == indexOf(enabled, name)
    IN  IF index # 0 THEN splice1(enabled, index) ELSE enabled

RECURSIVE enableFunctions(_, _)
enableFunctions(enabled, names) ==
    IF names = <<>> THEN enabled
    ELSE enableFunctions(enableFunction(enabled, Head(names)), Tail(names))

RECURSIVE disableFunctions(_, _)
disableFunctions(enabled, names) ==
    IF names = <<>> THEN enabled
    ELSE disableFunctions(disableFunction(enabled, Head(names)), Tail(names))

(***************************************************************************)
(* Raw argument strings and JSON.parse. A raw string is malformed, the     *)
(* text null, a number, or an object text whose members are written in     *)
(* order (a key may be written twice).                                     *)
(***************************************************************************)
Malformed == [json |-> "malformed", members |-> <<>>]
NullText == [json |-> "null", members |-> <<>>]
NumberText == [json |-> "number", members |-> <<>>]
ObjectText(members) == [json |-> "object", members |-> members]

\* The keys of an object text in the order of their first occurrence.
RECURSIVE FirstKeys(_, _)
FirstKeys(members, seen) ==
    IF members = <<>> THEN <<>>
    ELSE LET k == Head(members)[1]
         IN  IF k \in seen THEN FirstKeys(Tail(members), seen)
             ELSE <<k>> \o FirstKeys(Tail(members), seen \cup {k})

\* The value the last occurrence of key k carries.
LastValue(members, k) ==
    members[CHOOSE i \in 1..Len(members) : members[i][1] = k
                /\ \A j \in (i + 1)..Len(members) : members[j][1] # k][2]

\* JSON.parse(args): throws a SyntaxError on malformed text; an object text
\* becomes an object whose own properties are in first-occurrence order,
\* each with the last value written for it.
JSONparse(args) ==
    CASE args.json = "malformed" -> [type |-> "SyntaxError", threw |-> TRUE, entries |-> <<>>]
      [] args.json = "null" -> [type |-> "null", threw |-> FALSE, entries |-> <<>>]
      [] args.json = "number" -> [type |-> "number", threw |-> FALSE, entries |-> <<>>]
      [] OTHER ->
            LET ks == FirstKeys(args.members, {})
            IN  [type |-> "object", threw |-> FALSE,
                 entries |-> [i \in 1..Len(ks) |-> <<ks[i], LastValue(args.members, ks[i])>>]]

\* Object.getOwnPropertyNames(parsedArgs) of a non-null value.
getOwnPropertyNames(parsed) == [i \in 1..Len(parsed.entries) |-> parsed.entries[i][1]]

(***************************************************************************)
(* Errors: new Error(message), the message kept as its template and the    *)
(* values interpolated into it.                                            *)
(***************************************************************************)
Error(template, a, b) == [message |-> [template |-> template, a |-> a, b |-> b]]

NoError == Error("", <<>>, <<>>)
FunctionNotFound(name) == Error("Function ${name} not found", <<name>>, <<>>)
MissingRequired(needed, got) ==
    Error("Missing required parameters (needed ${needed}, got ${got})", needed, got)
UnknownParameter(key) == Error("Unknown parameter ${key}", <<key>>, <<>>)
SyntaxError == Error("Unexpected token in JSON", <<>>, <<>>)
TypeError == Error("Cannot convert undefined or null to object", <<>>, <<>>)
CalleeError(m) == Error(m, <<>>, <<>>)

Undefined == "undefined"

\* argsArray after argsArray[position] = value for every entry: a sparse
\* array, spread into the call with undefined in its holes.
ArgsArray(entries, parameterIndex) ==
    LET positions == {parameterIndex[entries[i][1]] : i \in 1..Len(entries)}
        length == IF positions = {} THEN 0
                  ELSE (CHOOSE p \in positions : \A q \in positions : q <= p) + 1
    IN  [p \in 1..length |->
            IF (p - 1) \in positions
            THEN LET i == CHOOSE j \in 1..Len(entries) :
                            parameterIndex[entries[j][1]] = p - 1
                            /\ \A l \in (j + 1)..Len(entries) :
                                  parameterIndex[entries[l][1]] # p - 1
                 IN  entries[i][2]
            ELSE Undefined]

\* How a call ends: it throws error, or returns value; invoked lists the
\* calls it made of plugin callables.
Thrown(e, invoked) == [threw |-> TRUE, invoked |-> invoked, value |-> <<>>, error |-> e]
Returned(v, invoked) == [threw |-> FALSE, invoked |-> invoked, value |-> v, error |-> NoError]

\* What the bound callable does when invoked; callee is what the plugin's
\* method does on this call: it returns a text or throws an Error.
Invoke(func, argsArray, callee) ==
    LET invoked == <<[func |-> func, args |-> argsArray]>>
    IN  IF callee.kind = "throw"
        THEN Thrown(CalleeError(callee.message), invoked)
        ELSE Returned(callee.value, invoked)

(***************************************************************************)
(* handleFunctionCall(name, args)                                          *)
(***************************************************************************)
\* this.registeredFunctionsMap.get(name): the data, or undefined.
NoFunctionData ==
    [description |-> "", func |-> <<"", "">>, parameterData |-> <<>>,
     parameterRequired |-> <<>>, parameterIndex |-> <<>>]

\* The lookup made to find enabled functions only.
MapGetIfEnabled(map, name) ==
    IF MapHas(map, name) /\ includes(enabledFunctions, name)
    THEN [data |-> MapGet(map, name), defined |-> TRUE]
    ELSE [data |-> NoFunctionData, defined |-> FALSE]

MapGetOrUndefined(map, name) ==
    IF MapHas(map, name) THEN [data |-> MapGet(map, name), defined |-> TRUE]
    ELSE [data |-> NoFunctionData, defined |-> FALSE]

\* The required-parameter check left out.
EveryRequiredSkipped(parameterRequired, names) == TRUE

\* funcData.parameterRequired.every(r => names.includes(r))
EveryRequired(parameterRequired, names) ==
    \A i \in 1..Len(parameterRequired) : includes(names, parameterRequired[i])

handleFunctionCall(map, name, args, callee) ==
    IF ~MapGetOrUndefined(map, name).defined THEN Thrown(FunctionNotFound(name), <<>>)
    ELSE
      LET funcData == MapGetOrUndefined(map, name).data
          parsedArgs == JSONparse(args)
      IN  IF parsedArgs.threw THEN Thrown(SyntaxError, <<>>)
          ELSE IF funcData.parameterRequired # <<>> /\ parsedArgs.type = "null"
               THEN Thrown(TypeError, <<>>)
          ELSE IF ~EveryRequired(funcData.parameterRequired, getOwnPropertyNames(parsedArgs))
               THEN Thrown(MissingRequired(funcData.parameterRequired,
                                           getOwnPropertyNames(parsedArgs)), <<>>)
          ELSE IF parsedArgs.type = "null" THEN Thrown(TypeError, <<>>)
          ELSE
            LET entries == parsedArgs.entries
                unknown == {i \in 1..Len(entries) :
                                entries[i][1] \notin DOMAIN funcData.parameterIndex}
            IN  IF unknown # {}
                THEN Thrown(UnknownParameter(
                        entries[CHOOSE i \in unknown : \A j \in unknown : i <= j][1]), <<>>)
                ELSE Invoke(funcData.func, ArgsArray(entries, funcData.parameterIndex), callee)

(***************************************************************************)
(* The controller as a state machine. The host calls one method at a time  *)
(* (pc = "idle"); a method that awaits keeps the thread until it returns.  *)
(***************************************************************************)
ZeroUsage == [prompt_tokens |-> 0, completion_tokens |-> 0, total_tokens |-> 0]

NoOp == [op |-> "none"]

(***************************************************************************)
(* Messages and service replies.                                           *)
(***************************************************************************)
NullContent == [error |-> NoError.message, kind |-> "null", text |-> <<>>]
TextContent(t) == [error |-> NoError.message, kind |-> "text", text |-> t]
\* JSON.stringify({error: message})
JSONstringifyError(m) == [error |-> m, kind |-> "json", text |-> <<>>]

NoFunctionCall == [name |-> "", present |-> FALSE, arguments |-> Malformed]
FunctionCall(name, arguments) == [name |-> name, present |-> TRUE, arguments |-> arguments]

Message(role, content, name, function_call) ==
    [name |-> name, role |-> role, content |-> content, function_call |-> function_call]

UserMessage(t) == Message("user", TextContent(t), "", NoFunctionCall)
SystemMessage(t) == Message("system", TextContent(t), "", NoFunctionCall)
AssistantMessage(t) == Message("assistant", TextContent(t), "", NoFunctionCall)
AssistantFunctionCall(name, arguments) ==
    Message("assistant", NullContent, "", FunctionCall(name, arguments))
FunctionMessage(name, content) == Message("function", content, name, NoFunctionCall)

Usage(p, c) == [prompt_tokens |-> p, completion_tokens |-> c, total_tokens |-> p + c]

\* response.data of createChatCompletion: choices[0].message and the optional usage.
Reply(message, hasUsage, u) == [usage |-> u, message |-> message, hasUsage |-> hasUsage]

NoReply == Reply(AssistantMessage(<<>>), FALSE, ZeroUsage)

\* A getNextCompletion call: its option, the number of frames it has below
\* its first (depth), its local response, and a record of what it has seen:
\* the transcript when it began (seed), the replies that asked for a function
\* (requests) and the usage each of them carried (replyUsages), the names it
\* has called handleFunctionCall with (dispatched), how the last dispatch
\* ended, and the submissions it has made.
NoCall ==
    [callFunctions |-> FALSE, depth |-> 0, seed |-> <<>>, requests |-> <<>>,
     replyUsages |-> <<>>, dispatched |-> <<>>,
     dispatchThrew |-> FALSE, dispatchError |-> NoError,
     submissions |-> 0, response |-> NoReply]

\* A getFunctionMessage call: who called it, its parameters, its local
\* truncatedResult, and what the plugin method did and how the dispatch ended.
NoGfm ==
    [name |-> "", args |-> Malformed, callee |-> [message |-> "", value |-> <<>>, kind |-> ""], caller |-> "",
     requestMaxTokens |-> 0, truncatedResult |-> <<>>,
     dispatch |-> [threw |-> FALSE, invoked |-> <<>>, value |-> <<>>, error |-> NoError]]

Init ==
    /\ registeredFunctionsMap = <<>>
    /\ enabledFunctions = <<>>
    /\ usage = ZeroUsage
    /\ messages = <<>>
    /\ pc = "idle"
    /\ call = NoCall
    /\ gfm = NoGfm
    /\ lastOp = NoOp

\* The inputs the host calls are explored with.
Registration(plugin, namespace, enable) ==
    [namespace |-> namespace, plugin |-> plugin, enable |-> enable]

RegisterInputs ==
    { Registration(SystemPlugin, "", <<"date_time", "fetch">>),
      Registration(CalcPlugin, "", <<>>),
      Registration(CalcPlugin, "", <<"f">>),
      Registration(CalcPlugin, "ns", <<"f">>),
      Registration(CalcPluginV2, "", <<"ghost">>) }

FunctionNames == {"date_time", "fetch", "f", "ns.f", "ghost"}

Call(name, args) == [name |-> name, args |-> args]

NameLists == {<<"f">>, <<"f", "f">>, <<"f", "ghost">>, <<"ns.f", "date_time">>}

\* The calls handleFunctionCall is explored with as an action.
DispatchInputs ==
    { Call("f", ObjectText(<<<<"a", "1">>>>)),
      Call("f", ObjectText(<<<<"a", "1">>, <<"b", "2">>>>)),
      Call("f", ObjectText(<<<<"b", "2">>, <<"a", "1">>, <<"c", "3">>>>)),
      Call("f", ObjectText(<<<<"a", "1">>, <<"b", "2">>, <<"d", "4">>>>)),
      Call("f", ObjectText(<<<<"f", "1">>>>)),
      Call("f", ObjectText(<<<<"f", "1">>, <<"f", "2">>>>)),
      Call("f", ObjectText(<<>>)),
      Call("f", Malformed),
      Call("f", NullText),
      Call("f", NumberText),
      Call("ns.f", ObjectText(<<<<"a", "1">>, <<"b", "2">>>>)),
      Call("fetch", ObjectText(<<<<"url", "u">>>>)),
      Call("fetch", ObjectText(<<<<"chatFetch", "u">>>>)),
      Call("fetch", NullText),
      Call("date_time", ObjectText(<<>>)),
      Call("ghost", ObjectText(<<>>)) }

\* What a plugin method may do when it is invoked.
Return(text) == [message |-> "", value |-> text, kind |-> "return"]
Throw(m) == [message |-> m, value |-> <<>>, kind |-> "throw"]

registerFunctions(plugin, namespace, enable) ==
    /\ pc = "idle"
    /\ Len(enabledFunctions) + Len(enable) <= MaxEnabled
    /\ enabledFunctions' = PushEnabled(enabledFunctions, namespace, enable)
    /\ registeredFunctionsMap' = RegisterFrom(registeredFunctionsMap, plugin, namespace, 1)
    /\ lastOp' = [namespace |-> namespace, plugin |-> plugin.id,
                  enable |-> enable, op |-> "registerFunctions"]
    /\ UNCHANGED <<usage, messages, pc, call, gfm>>

EnableFunction(name) ==
    /\ pc = "idle"
    /\ Len(enableFunction(enabledFunctions, name)) <= MaxEnabled
    /\ enabledFunctions' = enableFunction(enabledFunctions, name)
    /\ lastOp' = [name |-> name, op |-> "enableFunction"]
    /\ UNCHANGED <<registeredFunctionsMap, usage, messages, pc, call, gfm>>

DisableFunction(name) ==
    /\ pc = "idle"
    /\ enabledFunctions' = disableFunction(enabledFunctions, name)
    /\ lastOp' = [name |-> name, op |-> "disableFunction"]
    /\ UNCHANGED <<registeredFunctionsMap, usage, messages, pc, call, gfm>>

EnableFunctions(names) ==
    /\ pc = "idle"
    /\ Len(enableFunctions(enabledFunctions, names)) <= MaxEnabled
    /\ enabledFunctions' = enableFunctions(enabledFunctions, names)
    /\ lastOp' = [names |-> names, op |-> "enableFunctions"]
    /\ UNCHANGED <<registeredFunctionsMap, usage, messages, pc, call, gfm>>

DisableFunctions(names) ==
    /\ pc = "idle"
    /\ enabledFunctions' = disableFunctions(enabledFunctions, names)
    /\ lastOp' = [names |-> names, op |-> "disableFunctions"]
    /\ UNCHANGED <<registeredFunctionsMap, usage, messages, pc, call, gfm>>

GetRegisteredFunctions ==
    /\ pc = "idle"
    /\ lastOp' = [op |-> "getRegisteredFunctions",
                  result |-> getRegisteredFunctions(registeredFunctionsMap, enabledFunctions)]
    /\ UNCHANGED <<registeredFunctionsMap, enabledFunctions, usage, messages, pc, call, gfm>>

HandleFunctionCall(name, args, callee) ==
    /\ pc = "idle"
    /\ lastOp' = [name |-> name, args |-> args, callee |-> callee,
                  op |-> "handleFunctionCall",
                  result |-> handleFunctionCall(registeredFunctionsMap, name, args, callee)]
    /\ UNCHANGED <<registeredFunctionsMap, enabledFunctions, usage, messages, pc, call, gfm>>

CalleeOutcomes == {Return(<<"t">>), Throw("boom")}

NextRegistry ==
    \/ \E r \in RegisterInputs : registerFunctions(r.plugin, r.namespace, r.enable)
    \/ \E name \in FunctionNames : EnableFunction(name)
    \/ \E name \in FunctionNames : DisableFunction(name)
    \/ \E names \in NameLists : EnableFunctions(names)
    \/ \E names \in NameLists : DisableFunctions(names)
    \/ GetRegisteredFunctions
    \/ \E c \in DispatchInputs, callee \in CalleeOutcomes :
            HandleFunctionCall(c.name, c.args, callee)

SpecRegistry == Init /\ [][NextRegistry]_vars

(***************************************************************************)
(* Texts and the tokenizer. A text is the sequence of its characters. The  *)
(* character "w" encodes to two tokens; the character "-" joins the token  *)
(* of the character before it, if there is one; every other character      *)
(* starts a token.                                                         *)
(***************************************************************************)
TokensAt(text, i) ==
    IF text[i] = "w" THEN 2
    ELSE IF text[i] = "-" /\ i > 1 THEN 0
    ELSE 1

RECURSIVE TokensUpTo(_, _)
TokensUpTo(text, i) ==
    IF i = 0 THEN 0 ELSE TokensUpTo(text, i - 1) + TokensAt(text, i)

CountTokens(text) == TokensUpTo(text, Len(text))

\* A limit test that lets one token too many through.
isWithinTokenLimitOffByOne(text, tokenLimit) ==
    IF CountTokens(text) > tokenLimit + 1
    THEN [isFalse |-> TRUE, count |-> 0]
    ELSE [isFalse |-> FALSE, count |-> CountTokens(text)]

\* isWithinTokenLimit(text, tokenLimit) of gpt-tokenizer: false when the text
\* has more tokens than the limit, and the number of tokens otherwise.
isWithinTokenLimit(text, tokenLimit) ==
    IF CountTokens(text) > tokenLimit
    THEN [isFalse |-> TRUE, count |-> 0]
    ELSE [isFalse |-> FALSE, count |-> CountTokens(text)]

\* !x for x of type false | number
Not(x) == x.isFalse \/ x.count = 0

\* String.prototype.substring(0, end): end is clamped to 0..length.
substring0(text, end) ==
    SubSeq(text, 1, IF end < 0 THEN 0 ELSE IF end > Len(text) THEN Len(text) ELSE end)

DefaultRequestMaxTokens == 2048

\* One pass of the body of the while loop of getFunctionMessage.
TruncateOnce(truncatedResult, requestMaxTokens) ==
    IF Len(truncatedResult) > 4 * requestMaxTokens
    THEN substring0(truncatedResult, 4 * requestMaxTokens)
    ELSE substring0(truncatedResult, Len(truncatedResult) - 4)

(***************************************************************************)
(* Conversation state.                                                     *)
(***************************************************************************)
\* An addMessage that starts the transcript over.
addMessageReplacing(message) ==
    /\ messages' = <<message>>
    /\ usage' = ZeroUsage

addMessage(message) ==
    /\ messages' = Append(messages, message)
    /\ usage' = ZeroUsage

AddMessage(message) ==
    /\ pc = "idle"
    /\ Len(messages) < MaxMessages
    /\ addMessage(message)
    /\ lastOp' = [op |-> "addMessage"]
    /\ UNCHANGED <<registeredFunctionsMap, enabledFunctions, pc, call, gfm>>

AddSystemMessage(text) ==
    /\ pc = "idle"
    /\ Len(messages) < MaxMessages
    /\ addMessage(SystemMessage(text))
    /\ lastOp' = [op |-> "addSystemMessage"]
    /\ UNCHANGED <<registeredFunctionsMap, enabledFunctions, pc, call, gfm>>

\* A clearMessages that leaves the usage snapshot alone.
ClearMessagesKeepUsage ==
    /\ pc = "idle"
    /\ messages' = <<>>
    /\ lastOp' = [op |-> "clearMessages", found |-> [usage |-> usage, messages |-> Len(messages)]]
    /\ UNCHANGED <<registeredFunctionsMap, enabledFunctions, usage, pc, call, gfm>>

\* found records the state the call began in.
ClearMessages ==
    /\ pc = "idle"
    /\ messages' = <<>>
    /\ usage' = ZeroUsage
    /\ lastOp' = [op |-> "clearMessages", found |-> [usage |-> usage, messages |-> Len(messages)]]
    /\ UNCHANGED <<registeredFunctionsMap, enabledFunctions, pc, call, gfm>>

(***************************************************************************)
(* getNextCompletion and getCompletionWithMessage                          *)
(***************************************************************************)
\* options?: Partial<GetCompletionOptions>, absent or giving callFunctions.
NoOptions == [callFunctions |-> FALSE, given |-> FALSE]
Options(callFunctions) == [callFunctions |-> callFunctions, given |-> TRUE]

OptionsInputs == {NoOptions, Options(TRUE), Options(FALSE)}

\* opt = {model: this.options.model, callFunctions: false, ...options}
GetCompletionOptions(options) ==
    [callFunctions |-> IF options.given THEN options.callFunctions ELSE FALSE]

\* The call enters its first frame and submits the transcript.
StartCompletion(options, transcript) ==
    /\ call' = [NoCall EXCEPT !.callFunctions = GetCompletionOptions(options).callFunctions,
                              !.seed = transcript,
                              !.submissions = 1]
    /\ pc' = "createChatCompletion"

GetNextCompletion(options) ==
    /\ pc = "idle"
    /\ StartCompletion(options, messages)
    /\ lastOp' = NoOp
    /\ UNCHANGED <<registeredFunctionsMap, enabledFunctions, usage, messages, gfm>>

GetCompletionWithMessage(message, options) ==
    /\ pc = "idle"
    /\ Len(messages) < MaxMessages
    /\ addMessage(message)
    /\ StartCompletion(options, Append(messages, message))
    /\ lastOp' = NoOp
    /\ UNCHANGED <<registeredFunctionsMap, enabledFunctions, gfm>>

\* The test made to ignore the callFunctions option.
HasFunctionCall(callFunctions, reply) == reply.message.function_call.present

\* if (opt.callFunctions) { if (response.data.choices[0].message?.function_call)
ShouldCallFunction(callFunctions, reply) ==
    callFunctions /\ reply.message.function_call.present

\* await this.openai.createChatCompletion(...) resolves with reply.
CreateChatCompletionReturns(reply) ==
    /\ pc = "createChatCompletion"
    /\ IF ShouldCallFunction(call.callFunctions, reply)
       THEN /\ call.depth < MaxDepth
            /\ Len(messages) < MaxMessages
            /\ gfm' = [NoGfm EXCEPT !.caller = "getNextCompletion",
                                    !.name = reply.message.function_call.name,
                                    !.args = reply.message.function_call.arguments,
                                    !.requestMaxTokens = DefaultRequestMaxTokens]
            /\ call' = [call EXCEPT !.requests = Append(@, reply.message),
                                    !.replyUsages = Append(@, [usage |-> reply.usage,
                                                               hasUsage |-> reply.hasUsage])]
            /\ pc' = "handleFunctionCall"
       ELSE /\ call' = [call EXCEPT !.response = reply]
            /\ pc' = "return"
            /\ gfm' = gfm
    /\ UNCHANGED <<registeredFunctionsMap, enabledFunctions, usage, messages, lastOp>>

\* What the host sees of a getNextCompletion call that threw.
CompletionThrew(error) ==
    [threw |-> TRUE, error |-> error, op |-> "getNextCompletion",
     callFunctions |-> call.callFunctions, seed |-> call.seed,
     requests |-> call.requests, replyUsages |-> call.replyUsages,
     dispatched |-> call.dispatched,
     submissions |-> call.submissions, response |-> NoReply]

\* await this.openai.createChatCompletion(...) rejects: every frame rethrows.
CreateChatCompletionThrows ==
    /\ pc = "createChatCompletion"
    /\ pc' = "idle"
    /\ lastOp' = CompletionThrew("transport")
    /\ call' = NoCall
    /\ UNCHANGED <<registeredFunctionsMap, enabledFunctions, usage, messages, gfm>>

\* The frame's tail: if (response.data.usage) this.usage = ...; return response.
ReturnFrame ==
    /\ pc = "return"
    /\ usage' = IF call.response.hasUsage THEN call.response.usage ELSE usage
    /\ IF call.depth > 0
       THEN /\ call' = [call EXCEPT !.depth = @ - 1]
            /\ UNCHANGED <<pc, lastOp>>
       ELSE /\ pc' = "idle"
            /\ lastOp' = [threw |-> FALSE, error |-> "", op |-> "getNextCompletion",
                          callFunctions |-> call.callFunctions, seed |-> call.seed,
                          requests |-> call.requests, replyUsages |-> call.replyUsages,
                          dispatched |-> call.dispatched,
                          submissions |-> call.submissions, response |-> call.response]
            /\ call' = NoCall
    /\ UNCHANGED <<registeredFunctionsMap, enabledFunctions, messages, gfm>>

(***************************************************************************)
(* getFunctionMessage                                                      *)
(***************************************************************************)
GetFunctionMessage(name, args, requestMaxTokens) ==
    /\ pc = "idle"
    /\ gfm' = [NoGfm EXCEPT !.caller = "host", !.name = name, !.args = args,
                            !.requestMaxTokens = requestMaxTokens]
    /\ pc' = "handleFunctionCall"
    /\ lastOp' = NoOp
    /\ UNCHANGED <<registeredFunctionsMap, enabledFunctions, usage, messages, call>>

\* The catch clause made to stringify the Error object, which has no
\* enumerable property: the content is {"error":{}}.
CatchMessageOfErrorObject(name, e) == FunctionMessage(name, JSONstringifyError(NoError.message))

\* The message built in the catch clause.
CatchMessage(name, e) == FunctionMessage(name, JSONstringifyError(e.message))

\* The try block without its catch clause: a dispatch failure is rethrown.
TryHandleFunctionCallNoCatch(map, name, args, callee) ==
    LET r == handleFunctionCall(map, name, args, callee)
    IN  [threw |-> r.threw, message |-> FunctionMessage(name, NullContent),
         dispatch |-> r, returned |-> FALSE]

\* The try block up to the while loop, and the catch clause: the call of
\* handleFunctionCall either yields the result the loop starts from, or
\* throws into the catch clause, which returns a message.
TryHandleFunctionCall(map, name, args, callee) ==
    LET r == handleFunctionCall(map, name, args, callee)
    IN  IF r.threw
        THEN [threw |-> FALSE, message |-> CatchMessage(name, r.error), dispatch |-> r,
              returned |-> TRUE]
        ELSE [threw |-> FALSE, message |-> FunctionMessage(name, NullContent), dispatch |-> r,
              returned |-> FALSE]

\* A push that appends the message twice.
PushMessageTwice(transcript, message) == transcript \o <<message, message>>

\* this.messages.push(message)
PushMessage(transcript, message) == Append(transcript, message)

\* getFunctionMessage returns message to its caller: the host, or the frame
\* of getNextCompletion, which pushes it and calls getNextCompletion again.
\* When the return is from the catch clause (pc = "handleFunctionCall") the
\* call of handleFunctionCall was made in this step.
ReturnFunctionMessage(message, callee, dispatch) ==
    /\ gfm' = NoGfm
    /\ IF gfm.caller = "host"
       THEN /\ pc' = "idle"
            /\ lastOp' = [name |-> gfm.name, args |-> gfm.args, threw |-> FALSE,
                          invoked |-> dispatch.invoked,
                          callee |-> callee, op |-> "getFunctionMessage",
                          requestMaxTokens |-> gfm.requestMaxTokens, result |-> message]
            /\ UNCHANGED <<messages, call>>
       ELSE /\ messages' = PushMessage(messages, message)
            /\ call' = [call EXCEPT !.depth = @ + 1, !.submissions = @ + 1,
                                    !.dispatched = IF pc = "handleFunctionCall"
                                                   THEN Append(@, gfm.name) ELSE @,
                                    !.dispatchThrew = dispatch.threw,
                                    !.dispatchError = dispatch.error]
            /\ pc' = "createChatCompletion"
            /\ lastOp' = lastOp
    /\ UNCHANGED <<registeredFunctionsMap, enabledFunctions, usage>>

\* getFunctionMessage rejects: the host sees the error, and a frame of
\* getNextCompletion awaiting it rejects with it, as do the frames above it.
ThrowFromFunctionMessage(callee, dispatch) ==
    /\ gfm' = NoGfm
    /\ pc' = "idle"
    /\ IF gfm.caller = "host"
       THEN /\ lastOp' = [name |-> gfm.name, args |-> gfm.args, threw |-> TRUE,
                          invoked |-> dispatch.invoked,
                          callee |-> callee, op |-> "getFunctionMessage",
                          requestMaxTokens |-> gfm.requestMaxTokens,
                          result |-> FunctionMessage(gfm.name, NullContent)]
            /\ call' = call
       ELSE /\ lastOp' = CompletionThrew("dispatch")
            /\ call' = NoCall
    /\ UNCHANGED <<registeredFunctionsMap, enabledFunctions, usage, messages>>

\* try { const result = await this.handleFunctionCall(name, args); ... } catch
AwaitHandleFunctionCall(callee) ==
    /\ pc = "handleFunctionCall"
    /\ LET t == TryHandleFunctionCall(registeredFunctionsMap, gfm.name, gfm.args, callee)
       IN  IF t.threw THEN ThrowFromFunctionMessage(callee, t.dispatch)
           ELSE IF t.returned THEN ReturnFunctionMessage(t.message, callee, t.dispatch)
           ELSE /\ gfm' = [gfm EXCEPT !.truncatedResult = t.dispatch.value,
                                      !.dispatch = t.dispatch,
                                      !.callee = callee]
                /\ pc' = "truncate"
                /\ call' = IF gfm.caller = "getNextCompletion"
                           THEN [call EXCEPT !.dispatched = Append(@, gfm.name)]
                           ELSE call
                /\ UNCHANGED <<registeredFunctionsMap, enabledFunctions, usage, messages,
                               lastOp>>

\* One iteration of while (!isWithinTokenLimit(truncatedResult, requestMaxTokens)).
TruncateStep ==
    /\ pc = "truncate"
    /\ Not(isWithinTokenLimit(gfm.truncatedResult, gfm.requestMaxTokens))
    /\ gfm' = [gfm EXCEPT !.truncatedResult = TruncateOnce(@, gfm.requestMaxTokens)]
    /\ UNCHANGED <<registeredFunctionsMap, enabledFunctions, usage, messages, pc, call, lastOp>>

\* The loop's exit and the return of the function message.
TruncateDone ==
    /\ pc = "truncate"
    /\ ~Not(isWithinTokenLimit(gfm.truncatedResult, gfm.requestMaxTokens))
    /\ ReturnFunctionMessage(FunctionMessage(gfm.name, TextContent(gfm.truncatedResult)),
                             gfm.callee, gfm.dispatch)

(***************************************************************************)
(* The whole controller, with the inputs the completion loop is explored   *)
(* with.                                                                   *)
(***************************************************************************)
LoopRegisterInputs == {Registration(SystemPlugin, "", <<"date_time", "fetch">>)}

\* Requests for fetch: one its descriptor accepts, malformed arguments, a
\* missing required parameter, and an unknown parameter.
LoopRequests ==
    { Call("fetch", ObjectText(<<<<"chatFetch", "u">>>>)),
      Call("fetch", Malformed),
      Call("fetch", ObjectText(<<>>)),
      Call("fetch", ObjectText(<<<<"chatFetch", "u">>, <<"url", "u">>>>)) }

\* The final replies carry a usage or none; the function-invocation replies carry one.
Replies ==
    { Reply(AssistantMessage(<<"T">>), h, Usage(2, 1)) : h \in BOOLEAN }
    \cup { Reply(AssistantFunctionCall(c.name, c.args), TRUE, Usage(1, 1)) : c \in LoopRequests }

LoopCalleeOutcomes == {Return(<<"t">>), Return(<<>>), Throw("boom")}

\* A text of two tokens in six characters, for a host call with a budget of 1.
HostCalleeOutcomes == LoopCalleeOutcomes \cup {Return(<<"t", "-", "-", "-", "t", "-">>)}

CalleeOutcomesFor(caller) ==
    IF caller = "host" THEN HostCalleeOutcomes ELSE LoopCalleeOutcomes

\* The host's getFunctionMessage calls: every request with the default
\* options, and the accepted one with requestMaxTokens 1.
FunctionMessageInputs ==
    { [name |-> c.name, args |-> c.args, requestMaxTokens |-> DefaultRequestMaxTokens] :
            c \in LoopRequests }
    \cup { [name |-> "fetch", args |-> ObjectText(<<<<"chatFetch", "u">>>>),
            requestMaxTokens |-> 1] }


Next ==
    \/ \E r \in LoopRegisterInputs : registerFunctions(r.plugin, r.namespace, r.enable)
    \/ \E name \in {"fetch"} : EnableFunction(name)
    \/ \E name \in {"fetch"} : DisableFunction(name)
    \/ \E names \in {<<"fetch">>} : EnableFunctions(names)
    \/ \E names \in {<<"fetch">>} : DisableFunctions(names)
    \/ GetRegisteredFunctions
    \/ \E callee \in {Return(<<"t">>)} :
            HandleFunctionCall("date_time", ObjectText(<<>>), callee)
    \/ AddMessage(UserMessage(<<"q">>))
    \/ AddSystemMessage(<<"s">>)
    \/ ClearMessages
    \/ \E options \in OptionsInputs : GetNextCompletion(options)
    \/ \E options \in OptionsInputs : GetCompletionWithMessage(UserMessage(<<"q">>), options)
    \/ \E reply \in Replies : CreateChatCompletionReturns(reply)
    \/ CreateChatCompletionThrows
    \/ ReturnFrame
    \/ \E i \in FunctionMessageInputs : GetFunctionMessage(i.name, i.args, i.requestMaxTokens)
    \/ \E callee \in CalleeOutcomesFor(gfm.caller) : AwaitHandleFunctionCall(callee)
    \/ TruncateStep
    \/ TruncateDone

Spec == Init /\ [][Next]_vars

\* The controller when what it awaits comes back and the method that runs
\* goes on: the service answers every submission, getFunctionMessage's call
\* of handleFunctionCall ends (the callee returns or throws), the truncation
\* loop takes its next step or leaves, and a frame that has its response
\* returns. Nothing is assumed of when the host calls.
Fairness ==
    /\ WF_vars(\E reply \in Replies : CreateChatCompletionReturns(reply))
    /\ WF_vars(\E callee \in CalleeOutcomesFor(gfm.caller) : AwaitHandleFunctionCall(callee))
    /\ WF_vars(TruncateStep)
    /\ WF_vars(TruncateDone)
    /\ WF_vars(ReturnFrame)

SpecLive == Init /\ [][Next]_vars /\ Fairness

(***************************************************************************)
(* The truncation policy on its own: the host calls getFunctionMessage     *)
(* with a small budget and the callee returns any text of up to MaxTextLen *)
(* characters.                                                             *)
(***************************************************************************)
Chars == {"t", "w", "-"}

Texts == UNION {[1..n -> Chars] : n \in 0..MaxTextLen}

Budgets == 1..MaxBudget

TruncationCalleeOutcomes == {Return(text) : text \in Texts}

NextTruncation ==
    \/ \E r \in LoopRegisterInputs : registerFunctions(r.plugin, r.namespace, r.enable)
    \/ \E budget \in Budgets :
            GetFunctionMessage("fetch", ObjectText(<<<<"chatFetch", "u">>>>), budget)
    \/ \E callee \in TruncationCalleeOutcomes : AwaitHandleFunctionCall(callee)
    \/ TruncateStep
    \/ TruncateDone

SpecTruncation == Init /\ [][NextTruncation]_vars

(***************************************************************************)
(* Properties.                                                             *)
(***************************************************************************)
IsPrefix(p, t) == Len(p) <= Len(t) /\ SubSeq(t, 1, Len(p)) = p

\* The names getRegisteredFunctions lists now.
VisibleNames ==
    LET r == getRegisteredFunctions(registeredFunctionsMap, enabledFunctions)
    IN  {r[i].name : i \in 1..Len(r)}

\* The parameters the source declares for the method registered under name.
DeclaredParams(name) == MethodOf(MapGet(registeredFunctionsMap, name).func).params

\* The argument a callee receives at position i (one-based) of a spread array.
ArgAt(argsArray, i) == IF i <= Len(argsArray) THEN argsArray[i] ELSE Undefined

\* The value an object text gives key k.
ValueOf(args, k) == LastValue(args.members, k)

KeysOf(args) == Range(getOwnPropertyNames(JSONparse(args)))

\* C1: a getNextCompletion call with callFunctions that got one
\* function-invocation reply for a registered function and then a final text
\* returns the final reply and leaves the transcript as the seed, the
\* assistant message with the request, the function-result message and the
\* final assistant message, in this order and nothing else.
C1_LoopTranscript ==
    (/\ lastOp.op = "getNextCompletion"
     /\ ~lastOp.threw
     /\ lastOp.callFunctions
     /\ Len(lastOp.requests) = 1
     /\ MapHas(registeredFunctionsMap, lastOp.requests[1].function_call.name))
    => /\ ~lastOp.response.message.function_call.present
       /\ Len(messages) = Len(lastOp.seed) + 3
       /\ SubSeq(messages, 1, Len(lastOp.seed)) = lastOp.seed
       /\ messages[Len(lastOp.seed) + 1] = lastOp.requests[1]
       /\ messages[Len(lastOp.seed) + 2].role = "function"
       /\ messages[Len(lastOp.seed) + 2].name = lastOp.requests[1].function_call.name
       /\ messages[Len(lastOp.seed) + 3] = lastOp.response.message

\* C2: getRegisteredFunctions returns one schema for exactly each name that
\* is a key of the registry and a member of the enabled list.
C2_VisibleExactlyEnabledRegistered ==
    lastOp.op = "getRegisteredFunctions" =>
        LET r == lastOp.result
        IN  /\ \A i, j \in 1..Len(r) : r[i].name = r[j].name => i = j
            /\ {r[i].name : i \in 1..Len(r)} =
                    Range(MapKeys(registeredFunctionsMap)) \cap Range(enabledFunctions)

\* A listing that shows one function, hides a registered function that is not
\* enabled, and hides an enabled name that has no descriptor.
C2_Witness ==
    /\ lastOp.op = "getRegisteredFunctions"
    /\ Len(lastOp.result) = 1
    /\ \E k \in Range(MapKeys(registeredFunctionsMap)) : k \notin Range(enabledFunctions)
    /\ \E k \in Range(enabledFunctions) : k \notin Range(MapKeys(registeredFunctionsMap))

\* C3: after enableFunction(name) of a registered function the name is a
\* member of the enabled list and getRegisteredFunctions lists the function.
C3_EnableMakesVisible ==
    (lastOp.op = "enableFunction" /\ MapHas(registeredFunctionsMap, lastOp.name)) =>
        /\ includes(enabledFunctions, lastOp.name)
        /\ lastOp.name \in VisibleNames

\* C4: after disableFunction(name) the function is not listed by
\* getRegisteredFunctions, however often it had been enabled, and it is
\* still a key of the registry if it was one.
C4_DisableHides ==
    lastOp.op = "disableFunction" => lastOp.name \notin VisibleNames

\* C5: enableFunction and disableFunction are idempotent on the membership
\* of the enabled list: a second call changes nothing the first left.
C5_EnableDisableIdempotent ==
    \A name \in FunctionNames :
        /\ Range(enableFunction(enableFunction(enabledFunctions, name), name))
                = Range(enableFunction(enabledFunctions, name))
        /\ Range(disableFunction(disableFunction(enabledFunctions, name), name))
                = Range(disableFunction(enabledFunctions, name))

\* The registered function the last handleFunctionCall named is declared
\* with required parameters a and b and optional parameter c.
LastCallIsOfABC ==
    /\ lastOp.op = "handleFunctionCall"
    /\ MapHas(registeredFunctionsMap, lastOp.name)
    /\ LET ps == DeclaredParams(lastOp.name)
       IN  /\ {ps[i].declared : i \in 1..Len(ps)} = {"a", "b", "c"}
           /\ {ps[i].declared : i \in {j \in 1..Len(ps) : ps[j].required}} = {"a", "b"}
    /\ lastOp.args.json = "object"

\* C6: for f with required a, b and optional c, a payload of a alone fails
\* with the missing-required-parameters error, which lists b, and a payload
\* of a, b, d fails with the unknown-parameter error for d.
C6_ValidationErrors ==
    LastCallIsOfABC =>
        LET e == lastOp.result.error.message
        IN  /\ KeysOf(lastOp.args) = {"a"} =>
                /\ lastOp.result.threw
                /\ e.template = MissingRequired(<<>>, <<>>).message.template
                /\ "b" \in Range(e.a) \cup Range(e.b)
            /\ KeysOf(lastOp.args) = {"a", "b", "d"} =>
                /\ lastOp.result.threw
                /\ e = UnknownParameter("d").message

\* C7: a payload that holds every required declared name and declared names
\* only makes handleFunctionCall invoke the callee once, with the payload's
\* value of the i-th declared parameter at position i and undefined where the
\* payload omits an optional one, and return what the callee returns.
C7_PositionalArguments ==
    (/\ lastOp.op = "handleFunctionCall"
     /\ MapHas(registeredFunctionsMap, lastOp.name)
     /\ lastOp.args.json = "object")
    => LET ps == DeclaredParams(lastOp.name)
           declared == {ps[i].declared : i \in 1..Len(ps)}
           required == {ps[i].declared : i \in {j \in 1..Len(ps) : ps[j].required}}
           keys == KeysOf(lastOp.args)
           r == lastOp.result
       IN  (required \subseteq keys /\ keys \subseteq declared) =>
               /\ Len(r.invoked) = 1
               /\ \A i \in 1..Len(ps) :
                     ArgAt(r.invoked[1].args, i) =
                        IF ps[i].declared \in keys THEN ValueOf(lastOp.args, ps[i].declared)
                        ELSE Undefined
               /\ r.threw = (lastOp.callee.kind = "throw")
               /\ ~r.threw => r.value = lastOp.callee.value

\* C8: handleFunctionCall fails with the function-not-found error exactly
\* when the name is no key of the registry, whether or not the name is in
\* the enabled list; and whether the callee is invoked is decided by the
\* descriptor and the payload alone.
C8_DispatchIgnoresEnabled ==
    lastOp.op = "handleFunctionCall" =>
        LET r == lastOp.result
            registered == MapHas(registeredFunctionsMap, lastOp.name)
        IN  /\ (r.threw /\ r.error = FunctionNotFound(lastOp.name)) <=> ~registered
            /\ registered =>
                LET data == MapGet(registeredFunctionsMap, lastOp.name)
                    parsed == JSONparse(lastOp.args)
                    accepted ==
                        /\ ~parsed.threw
                        /\ parsed.type # "null"
                        /\ Range(data.parameterRequired) \subseteq KeysOf(lastOp.args)
                        /\ KeysOf(lastOp.args) \subseteq DOMAIN data.parameterIndex
                IN  (Len(r.invoked) = 1) <=> accepted

\* A registered function that is not in the enabled list is dispatched and
\* its callee invoked.
C8_Witness ==
    /\ lastOp.op = "handleFunctionCall"
    /\ MapHas(registeredFunctionsMap, lastOp.name)
    /\ ~includes(enabledFunctions, lastOp.name)
    /\ Len(lastOp.result.invoked) = 1
    /\ ~lastOp.result.threw

\* C9: getFunctionMessage does not throw; it returns a message of role
\* function that bears the requested name, whose content is a prefix of the
\* callee's result when the dispatch succeeds and the JSON object
\* {error: message} of the failure when the dispatch fails.
C9_FunctionMessageNeverThrows ==
    lastOp.op = "getFunctionMessage" =>
        LET r == handleFunctionCall(registeredFunctionsMap, lastOp.name, lastOp.args,
                                    lastOp.callee)
            m == lastOp.result
        IN  /\ ~lastOp.threw
            /\ m.role = "function"
            /\ m.name = lastOp.name
            /\ ~m.function_call.present
            /\ r.threw => m.content = [error |-> r.error.message, kind |-> "json", text |-> <<>>]
            /\ ~r.threw => /\ m.content.kind = "text"
                           /\ IsPrefix(m.content.text, lastOp.callee.value)

\* A callee result returned cut to a proper prefix.
C9_WitnessTruncated ==
    /\ lastOp.op = "getFunctionMessage"
    /\ lastOp.callee.kind = "return"
    /\ lastOp.result.content.kind = "text"
    /\ lastOp.result.content.text # <<>>
    /\ Len(lastOp.result.content.text) < Len(lastOp.callee.value)

\* A callee that threw, reported as the content of the returned message.
C9_Witness ==
    /\ lastOp.op = "getFunctionMessage"
    /\ Len(lastOp.invoked) = 1
    /\ lastOp.callee.kind = "throw"
    /\ lastOp.result.content.kind = "json"
    /\ lastOp.result.content.error = CalleeError(lastOp.callee.message).message

\* C10: a dispatch failure inside getNextCompletion does not end the call:
\* the only error the call throws is the service's, and after a failed
\* dispatch the transcript ends with the error message for the requested
\* name and has been submitted again.
C10_DispatchErrorKeepsLoop ==
    /\ (lastOp.op = "getNextCompletion" /\ lastOp.threw) => lastOp.error = "transport"
    /\ (pc = "createChatCompletion" /\ call.depth >= 1 /\ call.dispatchThrew) =>
            /\ Len(messages) = Len(call.seed) + call.depth
            /\ messages[Len(messages)] =
                    FunctionMessage(call.requests[call.depth].function_call.name,
                                    [error |-> call.dispatchError.message, kind |-> "json",
                                     text |-> <<>>])
            /\ call.submissions = call.depth + 1

\* The loop awaiting the service again after a dispatch that failed on a
\* missing required parameter.
C10_Witness ==
    /\ pc = "createChatCompletion"
    /\ call.depth >= 1
    /\ call.dispatchThrew
    /\ call.dispatchError.message.template = MissingRequired(<<>>, <<>>).message.template
    /\ messages[Len(messages)].role = "function"

\* The loop of getFunctionMessage leaves a text at once: its test passes.
ReturnsUnchanged(text, requestMaxTokens) ==
    ~Not(isWithinTokenLimit(text, requestMaxTokens))

\* C11: the truncation loop terminates: every step it is about to take
\* strictly shortens the text, so the length of the text bounds the steps
\* left, and the text it returns is a prefix of the callee's result that is
\* within the token budget.
C11_TruncationTerminates ==
    /\ (pc = "truncate" /\ Not(isWithinTokenLimit(gfm.truncatedResult, gfm.requestMaxTokens))) =>
            Len(TruncateOnce(gfm.truncatedResult, gfm.requestMaxTokens))
                < Len(gfm.truncatedResult)
    /\ (lastOp.op = "getFunctionMessage" /\ lastOp.result.content.kind = "text") =>
            /\ IsPrefix(lastOp.result.content.text, lastOp.callee.value)
            /\ CountTokens(lastOp.result.content.text) <= lastOp.requestMaxTokens

C13_UsageResetOnAppend ==
    [][Len(messages') > Len(messages) => usage' = ZeroUsage]_vars

\* The usage of the last element of a sequence of replies that carries one.
RECURSIVE LatestUsage(_)
LatestUsage(replies) ==
    IF replies = <<>> THEN [usage |-> ZeroUsage, hasUsage |-> FALSE]
    ELSE IF replies[Len(replies)].hasUsage THEN replies[Len(replies)]
    ELSE LatestUsage(SubSeq(replies, 1, Len(replies) - 1))

\* C14: when getNextCompletion returns, the usage snapshot is the usage of
\* the most recent reply of the call that carried one.
C14_UsageOfLatestReply ==
    (lastOp.op = "getNextCompletion" /\ ~lastOp.threw) =>
        LET latest == LatestUsage(Append(lastOp.replyUsages,
                                         [usage |-> lastOp.response.usage,
                                          hasUsage |-> lastOp.response.hasUsage]))
        IN  latest.hasUsage => usage = latest.usage

\* C15: a getNextCompletion call without callFunctions returns the first
\* reply it receives, a function-invocation request or not, after one
\* submission, and neither dispatches a function nor changes the transcript.
C15_NoCallFunctionsReturnsReply ==
    /\ (lastOp.op = "getNextCompletion" /\ ~lastOp.threw /\ ~lastOp.callFunctions) =>
            /\ lastOp.submissions = 1
            /\ lastOp.requests = <<>>
            /\ lastOp.response \in Replies
            /\ messages = lastOp.seed
    /\ (pc \in {"handleFunctionCall", "truncate"} /\ gfm.caller = "getNextCompletion") =>
            call.callFunctions
    /\ (pc \in {"createChatCompletion", "return"} /\ ~call.callFunctions) =>
            /\ call.submissions = 1
            /\ call.depth = 0
            /\ messages = call.seed

\* A call without callFunctions that returned a function-invocation request.
C15_Witness ==
    /\ lastOp.op = "getNextCompletion"
    /\ ~lastOp.threw
    /\ ~lastOp.callFunctions
    /\ lastOp.response.message.function_call.present
    /\ lastOp.response.message.function_call.name = "fetch"

\* The number of entries of a list that equal x.
Count(list, x) == Cardinality({i \in 1..Len(list) : list[i] = x})

\* C16: registering the plugin that declares f under namespace "ns" with
\* enable ["f"] leaves the registry with the key "ns.f" and the enabled list
\* with "ns.f", so that "ns.f" is listed and found by the dispatcher, and
\* changes neither the registry entry nor the enabled entries of bare "f".
C16_Namespacing ==
    [][(/\ lastOp'.op = "registerFunctions"
        /\ lastOp'.plugin = "CalcPlugin"
        /\ lastOp'.namespace = "ns"
        /\ lastOp'.enable = <<"f">>) =>
            /\ MapHas(registeredFunctionsMap', "ns.f")
            /\ MapGet(registeredFunctionsMap', "ns.f").func = <<"CalcPlugin", "f">>
            /\ includes(enabledFunctions', "ns.f")
            /\ "ns.f" \in VisibleNames'
            /\ handleFunctionCall(registeredFunctionsMap', "ns.f", ObjectText(<<>>),
                                  Return(<<>>)).error # FunctionNotFound("ns.f")
            /\ MapHas(registeredFunctionsMap', "f") <=> MapHas(registeredFunctionsMap, "f")
            /\ MapHas(registeredFunctionsMap, "f") =>
                    MapGet(registeredFunctionsMap', "f") = MapGet(registeredFunctionsMap, "f")
            /\ Count(enabledFunctions', "f") = Count(enabledFunctions, "f")
            /\ Count(enabledFunctions', "ns.f") = Count(enabledFunctions, "ns.f") + 1]_vars

\* The plugin registered under "ns" only: "ns.f" is listed, and bare "f" is
\* neither registered nor enabled.
C16_Witness ==
    /\ lastOp.op = "registerFunctions"
    /\ lastOp.namespace = "ns"
    /\ "ns.f" \in VisibleNames
    /\ ~MapHas(registeredFunctionsMap, "f")
    /\ ~includes(enabledFunctions, "f")

\* C17: the registry holds one descriptor per name; a registration leaves
\* under each name it declares the descriptor of its own plugin's method,
\* whatever was there, and leaves every other entry alone; nothing else
\* changes the registry; and the callable a dispatch invokes is the one of
\* the descriptor the registry holds.
C17_LastWriteWins ==
    /\ [](\A i, j \in 1..Len(registeredFunctionsMap) :
            registeredFunctionsMap[i][1] = registeredFunctionsMap[j][1] => i = j)
    /\ [](lastOp.op = "handleFunctionCall" /\ lastOp.result.invoked # <<>> =>
            /\ Len(lastOp.result.invoked) = 1
            /\ lastOp.result.invoked[1].func =
                    MapGet(registeredFunctionsMap, lastOp.name).func)
    /\ [][IF lastOp'.op = "registerFunctions"
          THEN LET plugin == PluginById(lastOp'.plugin)
                   declared == {i \in 1..Len(plugin.methods) : plugin.methods[i].annotated}
                   key(i) == Namespaced(lastOp'.namespace, plugin.methods[i].name)
               IN  /\ \A i \in declared :
                        /\ MapHas(registeredFunctionsMap', key(i))
                        /\ MapGet(registeredFunctionsMap', key(i)).func =
                                <<plugin.id, plugin.methods[i].propertyKey>>
                        /\ MapGet(registeredFunctionsMap', key(i)).description =
                                plugin.methods[i].description
                   /\ \A k \in Range(MapKeys(registeredFunctionsMap')) \ {key(i) : i \in declared} :
                        /\ MapHas(registeredFunctionsMap, k)
                        /\ MapGet(registeredFunctionsMap', k) = MapGet(registeredFunctionsMap, k)
          ELSE registeredFunctionsMap' = registeredFunctionsMap]_vars

\* f was registered by CalcPlugin and then by CalcPluginV2 (the enabled list
\* is pushed to in that order), and a dispatch of f invoked the method of
\* CalcPluginV2.
C17_Witness ==
    /\ enabledFunctions = <<"f", "ghost">>
    /\ lastOp.op = "handleFunctionCall"
    /\ lastOp.name = "f"
    /\ Len(lastOp.result.invoked) = 1
    /\ lastOp.result.invoked[1].func = <<"CalcPluginV2", "f">>

\* C18: clearMessages leaves the transcript empty and the usage snapshot
\* all-zero, and the registry and the enabled list as they were.
C18_ClearMessages ==
    [][lastOp'.op = "clearMessages" =>
            /\ messages' = <<>>
            /\ usage' = ZeroUsage
            /\ registeredFunctionsMap' = registeredFunctionsMap
            /\ enabledFunctions' = enabledFunctions]_vars

\* clearMessages called on a transcript of two messages and a usage
\* snapshot that was not zero, with a function registered and enabled.
C18_Witness ==
    /\ lastOp.op = "clearMessages"
    /\ lastOp.found.messages = 2
    /\ lastOp.found.usage # ZeroUsage
    /\ messages = <<>>
    /\ usage = ZeroUsage
    /\ "fetch" \in VisibleNames

\* C19: in every descriptor of the registry the parameter-name-to-position
\* map has one entry per parameter of the descriptor, the name of the
\* parameter at position i is a key of value i, and every required name is
\* a key.
C19_DescriptorConsistent ==
    \A e \in 1..Len(registeredFunctionsMap) :
        LET data == registeredFunctionsMap[e][2]
            n == Len(data.parameterData)
        IN  /\ Cardinality(DOMAIN data.parameterIndex) = n
            /\ \A i \in 1..n :
                    /\ data.parameterData[i].name \in DOMAIN data.parameterIndex
                    /\ data.parameterIndex[data.parameterData[i].name] = i - 1
            /\ Range(data.parameterRequired) \subseteq DOMAIN data.parameterIndex

\* C20: no step but one of clearMessages changes or removes what the
\* transcript holds: the transcript before the step is a prefix of the
\* transcript after it.
C20_TranscriptAppendOnly ==
    [][lastOp'.op # "clearMessages" => IsPrefix(messages, messages')]_vars

\* A transcript that was extended by the host and then by the completion
\* loop, which has returned.
C20_Witness ==
    /\ pc = "idle"
    /\ lastOp.op = "getNextCompletion"
    /\ Len(messages) = 2
    /\ messages[1].role = "user"
    /\ messages[2].role = "function"

\* The names the function-invocation replies of a call asked for.
RequestedNames(requests) == [i \in 1..Len(requests) |-> requests[i].function_call.name]

\* transcript is seed followed by one function message per requested name.
IsSeedThenResults(transcript, seed, requests) ==
    /\ Len(transcript) = Len(seed) + Len(requests)
    /\ IsPrefix(seed, transcript)
    /\ \A i \in 1..Len(requests) :
            /\ transcript[Len(seed) + i].role = "function"
            /\ transcript[Len(seed) + i].name = requests[i].function_call.name

\* C21: in a getNextCompletion call with callFunctions, between the receipt
\* of a function-invocation reply and the next submission the named function
\* is dispatched once and then one function-result message is appended:
\* whenever the call awaits the service or returns, the transcript is the
\* one it began with followed by one function message per request, the
\* dispatches are those of the requested names in order, and the
\* submissions are one more than the function-invocation replies.
C21_LoopRoundOrdering ==
    /\ (call.callFunctions /\ pc \in {"createChatCompletion", "return"}) =>
            /\ call.submissions = Len(call.requests) + 1
            /\ call.dispatched = RequestedNames(call.requests)
            /\ IsSeedThenResults(messages, call.seed, call.requests)
    /\ (gfm.caller = "getNextCompletion" /\ pc = "handleFunctionCall") =>
            /\ call.submissions = Len(call.requests)
            /\ Len(call.dispatched) = Len(call.requests) - 1
            /\ Len(messages) = Len(call.seed) + Len(call.requests) - 1
    /\ (gfm.caller = "getNextCompletion" /\ pc = "truncate") =>
            /\ call.submissions = Len(call.requests)
            /\ call.dispatched = RequestedNames(call.requests)
            /\ Len(messages) = Len(call.seed) + Len(call.requests) - 1
    /\ (lastOp.op = "getNextCompletion" /\ ~lastOp.threw /\ lastOp.callFunctions) =>
            /\ lastOp.submissions = Len(lastOp.requests) + 1
            /\ lastOp.dispatched = RequestedNames(lastOp.requests)
            /\ IsSeedThenResults(messages, lastOp.seed, lastOp.requests)

\* A call that returned after two function-invocation replies and three
\* submissions.
C21_Witness ==
    /\ lastOp.op = "getNextCompletion"
    /\ ~lastOp.threw
    /\ lastOp.callFunctions
    /\ Len(lastOp.requests) = 2
    /\ lastOp.submissions = 3
    /\ Len(lastOp.dispatched) = 2

\* C22: a getNextCompletion call with callFunctions whose service calls and
\* callees all come back ends, whatever the callees return, and when it
\* returns a reply it is one without a function-invocation request.
C22_LoopLiveness ==
    /\ (call.callFunctions /\ pc # "idle") ~> (pc = "idle")
    /\ [](lastOp.op = "getNextCompletion" /\ ~lastOp.threw /\ lastOp.callFunctions =>
            ~lastOp.response.message.function_call.present)

\* The stage at which the registry and the payload of the last dispatch make
\* it fail before the callee is reached.
RejectedAt(map, name, args) ==
    IF ~MapHas(map, name) THEN "lookup"
    ELSE IF args.json = "malformed" THEN "parse"
    ELSE IF \E r \in Range(MapGet(map, name).parameterRequired) : r \notin KeysOf(args)
         THEN "required"
    ELSE IF \E k \in KeysOf(args) : k \notin DOMAIN MapGet(map, name).parameterIndex
         THEN "unknown"
    ELSE "none"

\* C23: handleFunctionCall invokes the callee at most once, and not at all
\* when the name is not registered, the arguments do not parse, a required
\* name is missing or a key is not a parameter: such a call throws; and no
\* call of handleFunctionCall changes the registry, the enabled list, the
\* transcript or the usage snapshot.
C23_RejectedDispatchNoEffect ==
    /\ [](lastOp.op = "handleFunctionCall" =>
            /\ Len(lastOp.result.invoked) <= 1
            /\ (lastOp.args.json = "object"
                    /\ RejectedAt(registeredFunctionsMap, lastOp.name, lastOp.args) # "none") =>
                    /\ lastOp.result.threw
                    /\ lastOp.result.invoked = <<>>
            /\ (lastOp.args.json = "malformed" \/ ~MapHas(registeredFunctionsMap, lastOp.name)) =>
                    /\ lastOp.result.threw
                    /\ lastOp.result.invoked = <<>>)
    /\ [][lastOp'.op = "handleFunctionCall" =>
            UNCHANGED <<registeredFunctionsMap, enabledFunctions, messages, usage>>]_vars

\* A dispatch of a registered function rejected at the required-parameter
\* check, after the host had enabled it.
C23_Witness ==
    /\ lastOp.op = "handleFunctionCall"
    /\ lastOp.args.json = "object"
    /\ MapHas(registeredFunctionsMap, lastOp.name)
    /\ RejectedAt(registeredFunctionsMap, lastOp.name, lastOp.args) = "required"
    /\ lastOp.result.threw
    /\ includes(enabledFunctions, lastOp.name)

====
